---- MODULE Spec2Model ----
(***************************************************************************)
(* Model of pyBioPlot.py: the highlight-series selection done by           *)
(* _parse_highlight_list for volcano_plot, MA_plot and density_plot, the   *)
(* significance groups of the plots, the title handling of                 *)
(* _plot_postprocessing and the colour generator get_color_list.           *)
(*                                                                         *)
(* Numbers: p-values and alphas are fixed point in halves (2 is 1.0, 1 is  *)
(* 0.5); X values, X_cutoff, linewidths and counts are whole numbers.      *)
(* A Python dict is a function whose DOMAIN is the set of its keys, a      *)
(* pandas table is the sequence of its rows, a row is a record.            *)
(***************************************************************************)
EXTENDS Integers, Sequences, FiniteSets, TLC

VARIABLES
    pc,             \* position of the caller: "start", "loop", "done"
    df,             \* the caller's main table
    highlight_list, \* the caller's list of highlight entries
    args,           \* keyword arguments the caller gives (dict)
    default_val,    \* default_val of a direct _parse_highlight_list call
    out,            \* what the called function drew / returned
    first,          \* the first call completed: function, arguments, result
    n_color,        \* try_color_list: number of colours of the palette
    n_values,       \* try_color_list: number of values required
    colormap,       \* try_color_list: colormap name
    colgen,         \* try_color_list: the generator object
    i,              \* try_color_list: loop counter
    drawn           \* try_color_list: colours given to pl.scatter, in order

vars == <<pc, df, highlight_list, args, default_val, out, first,
          n_color, n_values, colormap, colgen, i, drawn>>

plotVars == <<df, highlight_list, args, default_val, out>>
colorVars == <<n_color, n_values, colormap, colgen, i, drawn>>

\* ---------------------------------------------------------------- bounds
MaxRows == 2        \* rows of the main table
MaxEntries == 2     \* entries of highlight_list
MaxColors == 4      \* n_color of try_color_list
MaxValues == 6      \* n_values of try_color_list

\* ------------------------------------------------------- Python / pandas
None == -1000       \* Python None
NA == -999          \* a missing value (NaN) of a table cell

EmptyDict == [k \in {} |-> None]

\* d.get(k, dflt)
Get(d, k, dflt) == IF k \in DOMAIN d THEN d[k] ELSE dflt

\* d[k] = v
Put(d, k, v) == (k :> v) @@ d

\* truth value of a number or None, as tested by "if FDR:"
Truthy(v) == v # None /\ v # 0

\* a <= b on a column value; a comparison with NaN is False
Le(a, b) == a # NA /\ b # NA /\ a <= b
Lt(a, b) == a # NA /\ b # NA /\ a < b

\* df.dropna(): the rows without a missing value; the identifier column
\* target_id of the tables of this model never holds a missing value
dropna(t) == SelectSeq(t, LAMBDA r : \A c \in DOMAIN r \ {"target_id"} : r[c] # NA)

\* ------------------------------------------------------ colour generator
\* cmap.N of the matplotlib colormaps used here
CmapN(cm) == CASE cm = "Set1" -> 9
               [] cm = "brg" -> 256

\* cmap(index): the colour at a look-up index (clipped to the last one)
cmap(cm, index) == <<cm, IF index > CmapN(cm) - 1 THEN CmapN(cm) - 1 ELSE index>>

\* step between two colours; for n = 1 the step is never used for a colour
step(n, cm) == IF n > 1 THEN (CmapN(cm) - 2) \div (n - 1) ELSE (CmapN(cm) - 2) \div 2

\* the list cl built by the first loop of get_color_list
ColorList(n, cm) == [k \in 1..n |-> cmap(cm, 1 + (k - 1) * step(n, cm))]

\* calling get_color_list returns a generator whose body has not run yet
get_color_list(n, cm) ==
    [n |-> n, cm |-> cm, cl |-> <<>>, i |-> 0, st |-> "created", val |-> None]

\* the generator's index update "i = i+1 if i < n-1 else 0"
Advance_OffByOne(g) == IF g.i < g.n THEN g.i + 1 ELSE 0
Advance(g) == IF g.i < g.n - 1 THEN g.i + 1 ELSE 0

\* next(g): run the body up to the next yield; val is the value yielded.
\* cl[i] out of range raises IndexError and the generator is finished.
next(g) ==
    LET cl == IF g.st = "created" THEN ColorList(g.n, g.cm) ELSE g.cl
        ni == IF g.st = "created" THEN 0 ELSE Advance(g)
    IN  IF g.st = "finished" \/ ni >= Len(cl)
        THEN [g EXCEPT !.st = "finished", !.cl = cl, !.val = None]
        ELSE [g EXCEPT !.st = "suspended", !.cl = cl, !.i = ni, !.val = cl[ni + 1]]

\* ------------------------------------------------- _parse_highlight_list
Range(f) == {f[k] : k \in DOMAIN f}

\* "if FDR: df2 = df2[(df2[FDR_col]<=FDR)]"
Threshold(df2, FDR, FDR_col) ==
    IF Truthy(FDR) THEN SelectSeq(df2, LAMBDA r : Le(r[FDR_col], FDR)) ELSE df2

\* "df[(df.target_id.isin(h["target_id"]))]"
IsinRows_FirstIdOnly(t, ids) ==
    SelectSeq(t, LAMBDA r : Len(ids) > 0 /\ r.target_id = ids[1])
IsinRows(t, ids) == SelectSeq(t, LAMBDA r : r.target_id \in Range(ids))

\* df2 of an entry h that has "target_id" or "df": the rows of the main
\* table t picked by target_id, or the entry's own table without its
\* missing values, then thresholded
SeriesRows(h, t, FDR, FDR_col) ==
    Threshold(IF "df" \notin DOMAIN h /\ "target_id" \in DOMAIN h
              THEN IsinRows(t, h["target_id"])
              ELSE dropna(h["df"]),
              FDR, FDR_col)

\* "if len(df2) <= min_targets: continue"
TooFew(df2, min_targets) == Len(df2) <= min_targets

\* "h.get(key, default_val.get(key, builtin))"
StyleOf_NoDefaultVal(h, dv, key, builtin) == Get(h, key, builtin)
StyleOf(h, dv, key, builtin) == Get(h, key, Get(dv, key, builtin))

\* "color": h.get("color", next(colors)); next(colors) is evaluated before
\* h.get is called, whether or not h has a colour.  s is the loop state.
TakeColor_Lazy(s, h) ==
    IF "color" \in DOMAIN h
    THEN [s EXCEPT !.color = h["color"]]
    ELSE [s EXCEPT !.colors = next(s.colors), !.color = next(s.colors).val]
TakeColor(s, h) ==
    LET g == next(s.colors)
    IN  [s EXCEPT !.colors = g, !.color = Get(h, "color", g.val)]

\* the else branch: print the message and continue
SkipEntry_TakesColor(s, idx) ==
    [s EXCEPT !.messages = Append(@, <<"Target_id list of dataframe required for series #", idx>>),
              !.colors = next(@)]
SkipEntry(s, idx) ==
    [s EXCEPT !.messages = Append(@, <<"Target_id list of dataframe required for series #", idx>>)]

\* the caller's entry h once the iteration has built h2 from it: the loop
\* reads h with "in", h[...] and h.get(...) and never assigns to it
EntryAfter_StoresSeries(h, h2) == Put(h, "df", h2.df)
EntryAfter(h, h2) == h

\* the label "{}  n={}".format(h.get("label", "Series #"+str(i)), len(df2))
Label(h, idx, n) ==
    IF "label" \in DOMAIN h
    THEN [text |-> h["label"], num |-> None, n |-> n]
    ELSE [text |-> "Series #", num |-> idx, n |-> n]

\* one iteration of "for i, h in enumerate(highlight_list)", idx is i.
\* a holds the arguments of _parse_highlight_list; s the loop state: the
\* generator colors, clean_list, the messages printed, kept, the
\* positions (from 1) of the entries that gave the series of clean_list,
\* and entries, the caller's list as the iterations leave it.
LoopBody(s, idx, a) ==
    LET h == a.highlight_list[idx + 1]
        valid == "df" \in DOMAIN h \/ "target_id" \in DOMAIN h
        df2 == SeriesRows(h, a.df, a.FDR, a.FDR_col)
        c == TakeColor(s, h)
        h2 == [df |-> df2,
               label |-> Label(h, idx, Len(df2)),
               color |-> c.color,
               alpha |-> StyleOf(h, a.default_val, "alpha", 2),
               marker |-> StyleOf(h, a.default_val, "marker", "o"),
               linewidth |-> StyleOf(h, a.default_val, "linewidth", 0),
               linestyle |-> StyleOf(h, a.default_val, "linestyle", "-")]
    IN  IF ~valid THEN SkipEntry(s, idx)
        ELSE IF TooFew(df2, a.min_targets) THEN s
        ELSE [c EXCEPT !.clean_list = Append(@, h2), !.kept = Append(@, idx + 1),
                       !.entries[idx + 1] = EntryAfter(h, h2)]

RECURSIVE ParseLoop(_, _, _)
ParseLoop(s, idx, a) ==
    IF idx >= Len(a.highlight_list) THEN s
    ELSE ParseLoop(LoopBody(s, idx, a), idx + 1, a)

\* the loop run with a given generator
ParseWith(a, colors) ==
    ParseLoop([colors |-> colors, color |-> None, clean_list |-> <<>>,
               kept |-> <<>>, messages |-> <<>>, entries |-> a.highlight_list], 0, a)

_parse_highlight_list(a) ==
    ParseWith(a, get_color_list(Len(a.highlight_list), a.highlight_palette))

\* ------------------------------------------------------------ the plots
One == 2            \* 1.0 in halves
Half == 1           \* 0.5 in halves

\* the named parameters of the plot functions; the other keywords are kwargs
NamedArgs == {"FDR", "X_cutoff", "FDR_col", "highlight_palette",
              "highlight_FDR", "highlight_min_targets"}
Kwargs(a) == [k \in DOMAIN a \ NamedArgs |-> a[k]]

NoTitle == <<>>

\* the title given to pl.title by _plot_postprocessing, NoTitle if none is
_plot_postprocessing(kws) == IF "title" \in DOMAIN kws THEN kws["title"] ELSE NoTitle

\* "df[(df[pcol]<=FDR) & (df[dcol]>0)]" and "... & (df[dcol]<0)]"
SigPos_OnDirectionCol(t, pcol, FDR, dcol) ==
    SelectSeq(t, LAMBDA r : Le(r[dcol], FDR) /\ Lt(0, r[dcol]))
SigPos(t, pcol, FDR, dcol) == SelectSeq(t, LAMBDA r : Le(r[pcol], FDR) /\ Lt(0, r[dcol]))
SigNeg(t, pcol, FDR, dcol) == SelectSeq(t, LAMBDA r : Le(r[pcol], FDR) /\ Lt(r[dcol], 0))

\* the arguments handed to _parse_highlight_list by the three plots
ParseArgs(hl, t, dv, a, FDR_col) ==
    [highlight_list |-> hl, df |-> t, default_val |-> dv,
     highlight_palette |-> Get(a, "highlight_palette", "Set1"),
     FDR |-> Get(a, "highlight_FDR", None),
     FDR_col |-> FDR_col,
     min_targets |-> Get(a, "highlight_min_targets", 0)]

\* what a call leaves: the table drawn as the base series (main), the two
\* significant groups, the alpha of the base points, the highlight series
\* with the trace of the parse, the default_val used and the title set
Drawn(fn, main, sigpos, signeg, base_alpha, p, dv, title) ==
    [fn |-> fn, main |-> main, sigpos |-> sigpos, signeg |-> signeg,
     base_alpha |-> base_alpha, series |-> p.clean_list, kept |-> p.kept,
     messages |-> p.messages, default_val |-> dv, title |-> title]

\* volcano_plot(df, X="lfc", Y="pval", highlight_list=..., **args);
\* xlim and ylim of default_val only set the axes and are left out
VolcanoDefault == [linewidth |-> 0, marker |-> "o", alpha |-> Half]
volcano_plot ==
    /\ pc = "start"
    /\ LET X == "lfc"
           Y == "pval"
           FDR == Get(args, "FDR", One)
           X_cutoff == Get(args, "X_cutoff", 1)
           kwargs == Kwargs(args)
           t == dropna(df)
           p == _parse_highlight_list(ParseArgs(highlight_list, t, VolcanoDefault, args, Y))
       IN  /\ out' = Drawn("volcano_plot", t, SigPos(t, Y, FDR, X), SigNeg(t, Y, FDR, X),
                           Get(kwargs, "alpha", VolcanoDefault["alpha"]), p, VolcanoDefault,
                           _plot_postprocessing(Put(kwargs, "title", <<"Volcano Plot  FDR=", FDR>>)))
           /\ highlight_list' = p.entries
    /\ pc' = "done"
    /\ UNCHANGED <<df, args, default_val, first>>
    /\ UNCHANGED colorVars

\* MA_plot(df, X="lfc", Y="lfc", FDR_col="pval", highlight_list=..., **args)
MADefault == [linewidth |-> 0, marker |-> "o", alpha |-> Half]
MA_plot ==
    /\ pc = "start"
    /\ LET Y == "lfc"
           FDR == Get(args, "FDR", One)
           FDR_col == Get(args, "FDR_col", "pval")
           kwargs == Kwargs(args)
           t == dropna(df)
           p == _parse_highlight_list(ParseArgs(highlight_list, t, MADefault, args, FDR_col))
       IN  /\ out' = Drawn("MA_plot", t, SigPos(t, FDR_col, FDR, Y), SigNeg(t, FDR_col, FDR, Y),
                           Get(kwargs, "alpha", MADefault["alpha"]), p, MADefault,
                           _plot_postprocessing(Put(kwargs, "title", <<"MA Plot  FDR=", FDR>>)))
           /\ highlight_list' = p.entries
    /\ pc' = "done"
    /\ UNCHANGED <<df, args, default_val, first>>
    /\ UNCHANGED colorVars

\* density_plot(df, X="lfc", FDR_col="pval", highlight_list=..., **args)
DensityDefault == [color |-> <<"black">>, linewidth |-> 2, linestyle |-> "-", alpha |-> One]
density_plot ==
    /\ pc = "start"
    /\ LET FDR == Get(args, "FDR", None)
           FDR_col == Get(args, "FDR_col", "pval")
           kwargs == Kwargs(args)
           t == Threshold(dropna(df), FDR, FDR_col)
           p == _parse_highlight_list(ParseArgs(highlight_list, t, DensityDefault, args, FDR_col))
       IN  /\ out' = Drawn("density_plot", t, <<>>, <<>>,
                           Get(kwargs, "alpha", DensityDefault["alpha"]), p, DensityDefault,
                           _plot_postprocessing(Put(kwargs, "title", <<"Density_Plot">>)))
           /\ highlight_list' = p.entries
    /\ pc' = "done"
    /\ UNCHANGED <<df, args, default_val, first>>
    /\ UNCHANGED colorVars

\* a direct call _parse_highlight_list(highlight_list, df, default_val,
\* highlight_palette, FDR, FDR_col, min_targets) on a table without missing
\* values, which is what every caller hands over
call_parse_highlight_list ==
    /\ pc = "start"
    /\ df = dropna(df)
    /\ LET p == _parse_highlight_list(ParseArgs(highlight_list, df, default_val, args, "pval"))
       IN  /\ out' = Drawn("_parse_highlight_list", df, <<>>, <<>>, None, p, default_val, NoTitle)
           /\ highlight_list' = p.entries
    /\ pc' = "done"
    /\ UNCHANGED <<df, args, default_val, first>>
    /\ UNCHANGED colorVars

Next == volcano_plot \/ MA_plot \/ density_plot \/ call_parse_highlight_list

\* ------------------------------------------------------------ the inputs
Row(id, x, p) == [target_id |-> id, lfc |-> x, pval |-> p]

\* the tables of at most n rows taken from K
Tables(K, n) == UNION {[1..m -> K] : m \in 0..n}

\* the dicts with the key k absent or set to one of vals
Opt(k, vals) == {EmptyDict} \cup {k :> v : v \in vals}

IdleColor ==
    /\ n_color = 0
    /\ n_values = 0
    /\ colormap = "brg"
    /\ colgen = get_color_list(0, "brg")
    /\ i = 0
    /\ drawn = <<>>

\* series selection: tables with two ids, three p-values and a missing
\* value; entries by target_id, by df, by both and by neither
SelRows == {Row(id, 1, p) : id \in {"id1", "id2"}, p \in 0..2} \cup {Row("id1", NA, 1)}
SelEntries ==
    { [target_id |-> <<"id1", "id2">>],
      [target_id |-> <<"id2", "id3">>],
      [df |-> <<Row("id3", 1, 0), Row("id3", 1, 2)>>],
      [target_id |-> <<"id2">>, df |-> <<Row("id3", 1, 1), Row("id3", NA, 0)>>],
      [label |-> "s1"] }

Init ==
    /\ pc = "start"
    /\ IdleColor
    /\ df \in Tables(SelRows, MaxRows)
    /\ highlight_list \in Tables(SelEntries, MaxEntries)
    /\ args \in {f @@ m : f \in Opt("highlight_FDR", {0, 1}),
                          m \in Opt("highlight_min_targets", {1, 2})}
    /\ default_val = EmptyDict
    /\ out = EmptyDict
    /\ first = EmptyDict

Spec == Init /\ [][Next]_vars

\* significance groups: one id, X negative, zero and positive, three
\* p-values and a missing value; FDR and X_cutoff given or left to default
SigRows == {Row("id1", x, p) : x \in {-1, 0, 1}, p \in 0..2} \cup {Row("id1", NA, 0)}

InitSig ==
    /\ pc = "start"
    /\ IdleColor
    /\ df \in Tables(SigRows, MaxRows)
    /\ highlight_list = <<>>
    /\ args \in {f @@ x : f \in Opt("FDR", {Half}), x \in Opt("X_cutoff", {2})}
    /\ default_val = EmptyDict
    /\ out = EmptyDict
    /\ first = EmptyDict

SpecSig == InitSig /\ [][Next]_vars

\* styles: every entry selects the one row of the table and gives any
\* subset of the style keys; default_val of a direct call has none, some or
\* all of them; kwargs give an alpha and a title or not
StyleEntries ==
    { [target_id |-> <<"id1">>] @@ a @@ m @@ w @@ l :
        a \in Opt("alpha", {0}), m \in Opt("marker", {">"}),
        w \in Opt("linewidth", {1}), l \in Opt("linestyle", {"--"}) }

InitStyle ==
    /\ pc = "start"
    /\ IdleColor
    /\ df = <<Row("id1", 1, 0)>>
    /\ highlight_list \in Tables(StyleEntries, MaxEntries)
    /\ args \in {a @@ t : a \in Opt("alpha", {One}), t \in Opt("title", {<<"My title">>})}
    /\ default_val \in {EmptyDict,
                        [alpha |-> Half, marker |-> "x"],
                        [alpha |-> Half, marker |-> "x", linewidth |-> 3, linestyle |-> ":"]}
    /\ out = EmptyDict
    /\ first = EmptyDict

SpecStyle == InitStyle /\ [][Next]_vars

\* colours: entries with and without a colour and a label, an entry that
\* selects no row and entries with neither target_id nor df
MaxPaletteEntries == 3
PaletteEntries ==
    { [target_id |-> <<"id1">>],
      [target_id |-> <<"id1">>, color |-> <<"red">>],
      [target_id |-> <<"id2">>, label |-> "s2"],
      [target_id |-> <<"id3">>],
      [label |-> "s1"],
      [color |-> <<"blue">>] }

InitPalette ==
    /\ pc = "start"
    /\ IdleColor
    /\ df = <<Row("id1", 1, 0), Row("id2", 1, 0)>>
    /\ highlight_list \in Tables(PaletteEntries, MaxPaletteEntries)
    /\ args \in Opt("highlight_palette", {"brg"})
    /\ default_val = EmptyDict
    /\ out = EmptyDict
    /\ first = EmptyDict

SpecPalette == InitPalette /\ [][Next]_vars

\* repeated calls: the caller keeps its table and its list and calls the
\* functions again and again, with highlight_FDR given or not
CallRows == {Row("id1", 1, 0), Row("id2", 1, 2), Row("id1", NA, 1)}
CallEntries ==
    { [target_id |-> <<"id1", "id2">>],
      [target_id |-> <<"id2">>, color |-> <<"red">>, alpha |-> 0],
      [df |-> <<Row("id3", 1, 0), Row("id3", 1, 2), Row("id3", NA, 0)>>],
      [label |-> "s1"] }
CallArgs == Opt("highlight_FDR", {1})

InitCalls ==
    /\ pc = "start"
    /\ IdleColor
    /\ df \in Tables(CallRows, MaxRows)
    /\ highlight_list \in Tables(CallEntries, MaxEntries)
    /\ args \in CallArgs
    /\ default_val = EmptyDict
    /\ out = EmptyDict
    /\ first = EmptyDict

\* the caller, after a call, prepares the next one on the same table and
\* the same list, with the same or other keyword arguments; the first call
\* completed is remembered with what it was given and what it returned
call_again ==
    /\ pc = "done"
    /\ first' = IF first = EmptyDict
                THEN [fn |-> out.fn, df |-> df, highlight_list |-> highlight_list,
                      args |-> args, default_val |-> default_val, out |-> out]
                ELSE first
    /\ args' \in CallArgs
    /\ pc' = "start"
    /\ UNCHANGED <<df, highlight_list, default_val, out>>
    /\ UNCHANGED colorVars

NextCalls == Next \/ call_again

SpecCalls == InitCalls /\ [][NextCalls]_vars

\* ------------------------------------------------- claims on selection
Plots == {"volcano_plot", "MA_plot", "density_plot"}
Called == pc = "done" /\ out.fn \in Plots \cup {"_parse_highlight_list"}

hFDR == Get(args, "highlight_FDR", None)
hMin == Get(args, "highlight_min_targets", 0)
IsValid(h) == "df" \in DOMAIN h \/ "target_id" \in DOMAIN h
ByTargetId(h) == "target_id" \in DOMAIN h /\ "df" \notin DOMAIN h

\* number of rows of t equal to v
Count(t, v) == Cardinality({k \in DOMAIN t : t[k] = v})

\* C1: a series is left out only when its row count after thresholding is
\* below highlight_min_targets; with exactly highlight_min_targets rows it
\* is kept.
C1_MinTargetsKept ==
    Called =>
        \A k \in DOMAIN highlight_list :
            IsValid(highlight_list[k]) =>
                (k \in Range(out.kept)
                    <=> Len(SeriesRows(highlight_list[k], out.main, hFDR, "pval")) >= hMin)

\* C2: when highlight_FDR is given, 0 included, every row of every series
\* has its FDR_col value <= highlight_FDR; when it is None no row is removed.
C2_ThresholdedWhenGiven ==
    Called =>
        \A j \in DOMAIN out.series :
            IF hFDR # None
            THEN \A k \in DOMAIN out.series[j].df : Le(out.series[j].df[k].pval, hFDR)
            ELSE out.series[j].df = SeriesRows(highlight_list[out.kept[j]], out.main, None, "pval")

\* C4: with highlight_FDR not given, the series of an entry given by
\* target_id holds exactly the rows of the main table, missing values
\* dropped, whose target_id is in the entry's list.
C4_ExactRows ==
    Called /\ hFDR = None =>
        /\ out.fn \in Plots /\ ~Truthy(Get(args, "FDR", None)) =>
              \A v \in Range(df) \cup Range(out.main) :
                  Count(out.main, v) = IF v.lfc # NA /\ v.pval # NA THEN Count(df, v) ELSE 0
        /\ \A j \in DOMAIN out.series :
              LET h == highlight_list[out.kept[j]] IN
              ByTargetId(h) =>
                  \A v \in Range(out.main) \cup Range(out.series[j].df) :
                      Count(out.series[j].df, v) =
                          IF v.target_id \in Range(h["target_id"]) THEN Count(out.main, v) ELSE 0

\* a plot was given a table with a row outside the list and a list with an
\* id that is not in the table; the series holds the one row of the list
C4_Witness ==
    /\ Called /\ hFDR = None /\ out.fn = "volcano_plot"
    /\ Len(df) = 2 /\ Len(out.main) = 2
    /\ \E j \in DOMAIN out.series :
          /\ highlight_list[out.kept[j]] = [target_id |-> <<"id2", "id3">>]
          /\ Len(out.series[j].df) = 1

\* --------------------------------------------------- claims on the plots
Abs(x) == IF x < 0 THEN -x ELSE x

\* C3: in volcano_plot a row is significant only if |X| >= X_cutoff and
\* Y <= FDR; a row with Y <= FDR and |X| < X_cutoff is in neither group.
C3_XCutoff ==
    Called /\ out.fn = "volcano_plot" =>
        \A r \in Range(out.sigpos) \cup Range(out.signeg) :
            /\ Abs(r.lfc) >= Get(args, "X_cutoff", 1)
            /\ r.pval <= Get(args, "FDR", One)

StyleKeys == {"alpha", "marker", "linewidth", "linestyle"}
Builtin == [alpha |-> One, marker |-> "o", linewidth |-> 0, linestyle |-> "-"]

C6_DefaultAlphaOne ==
    Called /\ out.fn \in {"volcano_plot", "MA_plot"} =>
        \A j \in DOMAIN out.series :
            "alpha" \notin DOMAIN highlight_list[out.kept[j]] => out.series[j].alpha = One

\* C8: the title set on the figure is the caller's title when one is given
\* in kwargs, the plot's built-in title otherwise.
C8_CallerTitle ==
    Called /\ out.fn \in Plots =>
        out.title =
            IF "title" \in DOMAIN args THEN args["title"]
            ELSE CASE out.fn = "volcano_plot" -> <<"Volcano Plot  FDR=", Get(args, "FDR", One)>>
                   [] out.fn = "MA_plot" -> <<"MA Plot  FDR=", Get(args, "FDR", One)>>
                   [] out.fn = "density_plot" -> <<"Density_Plot">>

\* -------------------------------------------------- claims on the colours
Palette == Get(args, "highlight_palette", "Set1")

Remove(l, p) == [k \in 1..(Len(l) - 1) |-> IF k < p THEN l[k] ELSE l[k + 1]]

\* a series of the list without its p-th entry, its default label numbered
\* as in the whole list
Renumber(h2, p) ==
    [h2 EXCEPT !.label.num = IF @ # None /\ @ >= p - 1 THEN @ + 1 ELSE @]

ArgsWithout(p) ==
    ParseArgs(Remove(highlight_list, p), out.main, out.default_val, args, "pval")

SkipMessage(p) == <<"Target_id list of dataframe required for series #", p - 1>>

\* C9 as stated: an entry with neither target_id nor df gives a message and
\* no series, and the series returned are those of the list without it, up
\* to the number in default labels.
C9_AsIfAbsent ==
    Called =>
        \A p \in DOMAIN highlight_list :
            ~IsValid(highlight_list[p]) =>
                LET ref == _parse_highlight_list(ArgsWithout(p)).clean_list IN
                /\ SkipMessage(p) \in Range(out.messages)
                /\ p \notin Range(out.kept)
                /\ out.series = [j \in DOMAIN ref |-> Renumber(ref[j], p)]

\* C9 amended: as above, with the colours drawn from the palette of
\* len(highlight_list) colours, the faulty entry counted.
C9_AsIfAbsentSamePalette ==
    Called =>
        \A p \in DOMAIN highlight_list :
            ~IsValid(highlight_list[p]) =>
                LET ref == ParseWith(ArgsWithout(p),
                                     get_color_list(Len(highlight_list), Palette)).clean_list IN
                /\ SkipMessage(p) \in Range(out.messages)
                /\ p \notin Range(out.kept)
                /\ out.series = [j \in DOMAIN ref |-> Renumber(ref[j], p)]

\* a faulty entry between two entries that get a palette colour and a
\* default label
C9_Witness ==
    /\ Called
    /\ Len(highlight_list) = 3
    /\ ~IsValid(highlight_list[2])
    /\ out.kept = <<1, 3>>
    /\ "color" \notin DOMAIN highlight_list[1] \cup DOMAIN highlight_list[3]
    /\ out.series[2].label.num = 2
    /\ out.series[2].color # out.series[1].color
    /\ Len(out.messages) = 1

IdlePlot ==
    /\ df = <<>>
    /\ highlight_list = <<>>
    /\ args = EmptyDict
    /\ default_val = EmptyDict
    /\ out = EmptyDict
    /\ first = EmptyDict

InitColor ==
    /\ pc = "start"
    /\ IdlePlot
    /\ n_color \in 0..MaxColors
    /\ n_values \in 0..MaxValues
    /\ colormap \in {"brg", "Set1"}
    /\ colgen = get_color_list(0, "brg")
    /\ i = 0
    /\ drawn = <<>>

\* try_color_list up to the creation of the generator
try_color_list ==
    /\ pc = "start"
    /\ colgen' = get_color_list(n_color, colormap)
    /\ i' = 0
    /\ pc' = IF n_values > 0 THEN "loop" ELSE "done"
    /\ UNCHANGED <<n_color, n_values, colormap, drawn>>
    /\ UNCHANGED <<plotVars, first>>

\* one iteration of "for i in range(n_values)": next(colgen), pl.scatter
try_color_list_loop ==
    /\ pc = "loop"
    /\ colgen.st # "finished"
    /\ LET g == next(colgen) IN
        /\ colgen' = g
        /\ IF g.st = "finished"
           THEN /\ pc' = "error"
                /\ UNCHANGED <<i, drawn>>
           ELSE /\ drawn' = Append(drawn, g.val)
                /\ i' = i + 1
                /\ pc' = IF i + 1 < n_values THEN "loop" ELSE "done"
    /\ UNCHANGED <<n_color, n_values, colormap>>
    /\ UNCHANGED <<plotVars, first>>

NextColor == try_color_list \/ try_color_list_loop

SpecColor == InitColor /\ [][NextColor]_vars

\* C10: a generator of n >= 1 colours never ends, and the k-th value drawn
\* from it (k from 0) is the (k mod n)-th colour of the n-colour palette.
C10_Cycles ==
    n_color >= 1 =>
        /\ pc # "error"
        /\ colgen.st # "finished"
        /\ Len(drawn) = i
        /\ \A k \in 0..(Len(drawn) - 1) :
              drawn[k + 1] = cmap(colormap, 1 + (k % n_color) * step(n_color, colormap))

\* more values than colours were drawn and the list is complete
C10_Witness ==
    /\ pc = "done"
    /\ n_color >= 2
    /\ Len(drawn) = n_values
    /\ n_values > n_color
    /\ drawn[n_color + 1] = drawn[1]
    /\ drawn[2] # drawn[1]
====
